---------------------------- MODULE Spec2Model ----------------------------
(***************************************************************************)
(* A model of node-fs-tree-db: the hierarchical cache (library/cache.js)   *)
(* and the tree synchronizer (library/treedb.js).                          *)
(*                                                                         *)
(* JavaScript values are modelled as finite trees in flat form: a function *)
(* from a prefix-closed set of property paths (sequences of property       *)
(* names, <<>> being the value itself) to the kind of the node found       *)
(* there.  The kind "{}" is an object (a Branch); every other kind is a    *)
(* primitive: the markers "undefined" and "null", or the text of a string  *)
(* (a Leaf).  Leaf texts are drawn from Contents and are one character     *)
(* long.  A reference into a tree (the `target` of Cache.set, the `branch` *)
(* of TreeDB.readBranch) is the path of the object referred to.  A value    *)
(* handed to the cache is not changed afterwards through another reference *)
(* to it: the callers of the model keep none.                              *)
(*                                                                         *)
(* A JavaScript string used as a key is a sequence of tokens, a token      *)
(* being the separator or a piece of text free of separators.              *)
(***************************************************************************)
EXTENDS Integers, Sequences, FiniteSets, TLC

\* ------------------------------------------------------------------ bounds

\* the most expiry timers pending at once
MaxTimers == 1
\* the most calls the client makes of a TreeDB
MaxCalls == 2

\* ------------------------------------------------------------- JS values

Names == {"a", "b"}
Contents == {"x", "y"}

Obj == "{}"

Prim(s) == [p \in {<<>>} |-> s]
Undefined == Prim("undefined")
Null == Prim("null")
EmptyObj == Prim(Obj)

\* typeof v === 'object' && v !== null
IsObj(v) == v[<<>>] = Obj
\* !v
Falsy(v) == v[<<>>] \in {"undefined", "null", "", "false", "0"}

IsPrefix(p, q) == Len(p) <= Len(q) /\ SubSeq(q, 1, Len(p)) = p
Drop(q, n) == SubSeq(q, n + 1, Len(q))

\* the value found at path p of v (p is a node of v)
Sub(v, p) ==
  [q \in {Drop(r, Len(p)) : r \in {r \in DOMAIN v : IsPrefix(p, r)}} |-> v[p \o q]]

\* v without the node at p and everything below it
Delete(v, p) == [q \in {r \in DOMAIN v : ~IsPrefix(p, r)} |-> v[q]]

\* v with the value w stored at p (the parent of p is an object of v)
Graft(v, p, w) ==
  [q \in {r \in DOMAIN v : ~IsPrefix(p, r)} \cup {p \o r : r \in DOMAIN w} |->
     IF IsPrefix(p, q) THEN w[Drop(q, Len(p))] ELSE v[q]]

\* v[name], v an object
Prop(v, name) == IF <<name>> \in DOMAIN v THEN Sub(v, <<name>>) ELSE Undefined

\* { [name]: w }
Wrap(name, w) == Graft(EmptyObj, <<name>>, w)

\* ------------------------------------------------------------ key strings

Sep == "/"

RECURSIVE SplitFrom(_, _, _, _)
SplitFrom(key, i, cur, acc) ==
  IF i > Len(key) THEN Append(acc, cur)
  ELSE IF key[i] = Sep THEN SplitFrom(key, i + 1, "", Append(acc, cur))
  ELSE SplitFrom(key, i + 1, cur \o key[i], acc)

\* key.split(this.config.separator)
Split(key) == SplitFrom(key, 1, "", <<>>)

\* the keys of the model: the empty key and every key of one or two segments
ProperKeys == {<<n>> : n \in Names} \cup {<<n, Sep, m>> : n, m \in Names}
EmptyKey == <<>>
Keys == {EmptyKey} \cup ProperKeys


\* ------------------------------------------------------------------ state

VARIABLES
  cacheStorage,  \* Cache.cacheStorage: the root of the cache tree
  cfgTtl,        \* Cache.config.ttl: the default TTL
  timers,        \* the pending setTimeout callbacks, oldest first: the key of each
  disk,          \* the directory config.root as a tree; Undefined when it is missing
  rootDir,       \* whether the directory config.rootPath exists
  boot,          \* where loadDatabase stands
  walks,         \* the readBranch calls in flight, by top-level call
  call,          \* the TreeDB call the client is waiting for
  calls,         \* how many TreeDB calls the client has made
  gets           \* the getBranch calls made, by caller

vars == <<cacheStorage, cfgTtl, timers, disk, rootDir, boot, walks, call, calls, gets>>
cacheVars == <<cacheStorage, cfgTtl, timers>>
dbVars == <<disk, rootDir, boot, walks, call, calls, gets>>

\* the TTL values: an omitted argument, false, 0 and a number of milliseconds
TtlArgs == {"undefined", "false", "0", "1000"}
\* the default of Cache and the default TreeDB passes to it
TtlConfigs == {"108000", "false"}

\* the values the model stores: Leaves and Branches
Values == {Prim("x"), EmptyObj, Wrap("a", Prim("y"))}

\* ------------------------------------------------------------------ Cache

\* Object.assign({}, this.cacheStorage): the own enumerable properties of the
\* root; a string has one per character, undefined and null have none
ShallowCopy(root) ==
  IF IsObj(root) THEN root
  ELSE IF root[<<>>] \in Contents THEN Wrap("0", root)
  ELSE EmptyObj

Rejected == [ok |-> FALSE, value |-> Undefined]
Resolved(v) == [ok |-> TRUE, value |-> v]

RECURSIVE GetWalk(_, _, _)
GetWalk(storage, path, i) ==
  IF i <= Len(path)
    THEN IF Falsy(storage) \/ ~IsObj(storage)
           THEN Rejected
           ELSE GetWalk(Prop(storage, path[i]), path, i + 1)
    \* the debug call of the undefined case reads the loop's `i` out of its
    \* scope and throws inside the executor: the promise is rejected all the same
    ELSE IF storage = Undefined THEN Rejected ELSE Resolved(storage)

\* Cache.get(key) on the cache tree `root`
CacheGet(root, key) == GetWalk(ShallowCopy(root), Split(key), 1)

\* ttl = ttl || this.config.ttl
EffectiveTtl(ttl, config) == IF Falsy(Prim(ttl)) THEN config ELSE ttl

\* if (!ttl) { setTimeout(...) }
SchedulesTimer(ttl) == Falsy(Prim(ttl))

RECURSIVE SetWalk(_, _, _, _, _)
\* the loop of Cache.set and the assignment after it; `target` is the path of
\* the object the loop stands on.  The `in` operator and, in strict mode, the
\* assignment of a property throw a TypeError on a primitive.
SetWalk(storage, path, i, target, value) ==
  IF storage[target] # Obj
    THEN [storage |-> storage, threw |-> TRUE]
  ELSE IF i < Len(path)
    THEN IF target \o <<path[i]>> \in DOMAIN storage
           THEN SetWalk(storage, path, i + 1, target \o <<path[i]>>, value)
           ELSE SetWalk(Graft(storage, target \o <<path[i]>>, EmptyObj),
                        path, i + 1, target \o <<path[i]>>, value)
  ELSE [storage |-> Graft(storage, target \o <<path[i]>>, value), threw |-> FALSE]

\* Cache.set without its case for the empty key
CacheSet_NoRootSwap(root, key, value) == SetWalk(root, Split(key), 1, <<>>, value)

\* the executor of Cache.set(key, value) on the cache tree `root`
CacheSet(root, key, value) ==
  IF Len(key) = 0
    THEN [storage |-> value, threw |-> FALSE]
    ELSE SetWalk(root, Split(key), 1, <<>>, value)

RECURSIVE RemoveWalk(_, _, _, _)
\* the loop of Cache.remove and the delete after it.  `delete` throws on
\* undefined and null and does nothing on another primitive; the promise is
\* resolved only on the early return.
RemoveWalk(storage, path, i, target) ==
  IF i < Len(path)
    THEN IF storage[target] # Obj
           THEN [storage |-> storage, outcome |-> "rejected"]
         ELSE IF target \o <<path[i]>> \in DOMAIN storage
           THEN RemoveWalk(storage, path, i + 1, target \o <<path[i]>>)
           ELSE [storage |-> storage, outcome |-> "resolved"]
  ELSE IF storage[target] \in {"undefined", "null"}
    THEN [storage |-> storage, outcome |-> "rejected"]
  ELSE IF storage[target] # Obj
    THEN [storage |-> storage, outcome |-> "pending"]
  ELSE [storage |-> Delete(storage, target \o <<path[i]>>), outcome |-> "pending"]

\* the executor of Cache.remove(key) on the cache tree `root`
CacheRemove(root, key) == RemoveWalk(root, Split(key), 1, <<>>)

\* the timers after a set(key, _, ttl) whose executor has run
AfterSet(key, ttl, threw) ==
  IF ~threw /\ SchedulesTimer(EffectiveTtl(ttl, cfgTtl))
    THEN Append(timers, key)
    ELSE timers

NoWalks == [w \in {} |-> 0]
\* the call in flight: getPath (flag: the cache had the key; value: the result)
\* or writeLeaf (flag: the disk write succeeded; value: the content)
Op(op, key, pc, flag, value) ==
  [op |-> op, key |-> key, pc |-> pc, flag |-> flag, value |-> value]
Idle == Op("idle", <<>>, "idle", FALSE, Undefined)

\* new Cache(options), no TreeDB around it
Init ==
  /\ cacheStorage = EmptyObj
  /\ cfgTtl \in TtlConfigs
  /\ timers = <<>>
  /\ disk = Undefined
  /\ rootDir = FALSE
  /\ boot = "none"
  /\ walks = NoWalks
  /\ call = Idle
  /\ calls = 0
  /\ gets = NoWalks

\* cache.set(key, value, ttl)
Set(key, value, ttl) ==
  LET r == CacheSet(cacheStorage, key, value) IN
  /\ Len(AfterSet(key, ttl, r.threw)) <= MaxTimers
  /\ cacheStorage' = r.storage
  /\ timers' = AfterSet(key, ttl, r.threw)
  /\ UNCHANGED <<cfgTtl, dbVars>>

\* cache.remove(key)
Remove(key) ==
  /\ cacheStorage' = CacheRemove(cacheStorage, key).storage
  /\ UNCHANGED <<cfgTtl, timers, dbVars>>

\* cache.get(key): it reads the tree and changes nothing
Get(key) ==
  /\ CacheGet(cacheStorage, key).ok \in BOOLEAN
  /\ UNCHANGED vars

\* the oldest timer fires: this.remove(key).  Every timer is registered with a
\* falsy delay, so the timers fire in the order of their registration.
Expire ==
  /\ timers # <<>>
  /\ cacheStorage' = CacheRemove(cacheStorage, Head(timers)).storage
  /\ timers' = Tail(timers)
  /\ UNCHANGED <<cfgTtl, dbVars>>

SetAny == \E key \in Keys, value \in Values, ttl \in TtlArgs : Set(key, value, ttl)
RemoveAny == \E key \in Keys : Remove(key)
GetAny == \E key \in Keys : Get(key)

Next == SetAny \/ RemoveAny \/ GetAny \/ Expire

Spec == Init /\ [][Next]_vars

\* ----------------------------------------------------------------- TreeDB

\* the base name of config.root
Storage == "storage"

\* whether the disk holds a node at the path p below config.root
Exists(p) == p \in DOMAIN disk /\ disk[p] # "undefined"

\* the text of a node that is neither a regular file nor a directory: a
\* symbolic link, which fs.lstat does not follow
Link == "->"

\* what fs.lstat does with the node at p.  It fails with ENOENT ("missing")
\* when p names nothing in an existing directory and with ENOTDIR ("notdir")
\* when a node above p is no directory; it succeeds otherwise, and then
\* stats.isFile() ("file"), stats.isDirectory() ("dir") or neither ("other").
KindAt(p) ==
  IF Exists(p)
    THEN IF disk[p] = Obj THEN "dir"
         ELSE IF disk[p] \in Contents THEN "file"
         ELSE "other"
  ELSE IF \E n \in 0..(Len(p) - 1) :
            Exists(SubSeq(p, 1, n)) /\ disk[SubSeq(p, 1, n)] # Obj
    THEN "notdir"
  ELSE "missing"

\* the names fs.readdir finds in the directory at p
ChildNodes(p) ==
  {r[Len(p) + 1] : r \in {r \in DOMAIN disk : Len(r) = Len(p) + 1 /\ IsPrefix(p, r)}}

\* the orders fs.readdir may list the names of S in
Orders(S) ==
  {o \in [1..Cardinality(S) -> S] : \A i, j \in 1..Cardinality(S) : o[i] = o[j] => i = j}

IndexNames == <<"0", "1", "2", "3">>

\* the array of the names in `order`, as the object of its index properties
ArrayOf(order) ==
  [q \in {<<>>} \cup {<<IndexNames[i]>> : i \in 1..Len(order)} |->
     IF q = <<>> THEN Obj ELSE order[CHOOSE i \in 1..Len(order) : IndexNames[i] = q[1]]]

\* branch[ basename ] = {} and, for every child, branch[ basename ][ child ] = null
Placeholders(children) ==
  [q \in {<<>>} \cup {<<n>> : n \in children} |-> IF q = <<>> THEN Obj ELSE "null"]

\* nodePath with one leading slash trimmed (getPath, getBranch)
Trim(nodePath) ==
  IF Len(nodePath) > 0 /\ nodePath[1] = "/" THEN Tail(nodePath) ELSE nodePath

\* path.join(this.config.root, nodePath), as a path below config.root: the
\* empty segments fall away
DiskPath(nodePath) == SelectSeq(Split(nodePath), LAMBDA seg : seg # "")

\* path.basename of the node at the disk path p
BaseName(p) == IF Len(p) = 0 THEN Storage ELSE p[Len(p)]

\* ---- readBranch

\* a readBranch(base, acc) call made at top level and its recursive calls:
\* `pc` gives, by disk path, where each call stands
NewWalk(base) ==
  [base |-> base, acc |-> EmptyObj, pc |-> [p \in {base} |-> "lstat"]]

\* the place in the accumulator of the node at the disk path p
AccPath(w, p) == <<BaseName(walks[w].base)>> \o Drop(p, Len(walks[w].base))

WalkChildren(w, p) ==
  {q \in DOMAIN walks[w].pc : Len(q) = Len(p) + 1 /\ IsPrefix(p, q)}

RECURSIVE Promise(_, _)
\* the state of the promise readBranch returned for the node at p; the one
\* of a directory is Promise.all of its children's
Promise(w, p) ==
  LET pc == walks[w].pc[p] IN
  IF pc = "resolved" THEN "resolved"
  ELSE IF pc = "rejected" THEN "rejected"
  ELSE IF pc = "listed"
    THEN IF \E q \in WalkChildren(w, p) : Promise(w, q) = "rejected" THEN "rejected"
         ELSE IF \A q \in WalkChildren(w, p) : Promise(w, q) = "resolved" THEN "resolved"
         ELSE "pending"
  ELSE "pending"

WalkTo(w, p, pc, acc) ==
  walks' = [walks EXCEPT ![w].pc = (p :> pc) @@ @, ![w].acc = acc]

\* fs.lstat(nodePath) settles
WalkLstat(w, p) ==
  /\ walks[w].pc[p] = "lstat"
  /\ LET kind == KindAt(p) IN
       WalkTo(w, p, IF kind = "file" THEN "readFile"
                    ELSE IF kind = "dir" THEN "readdir"
                    ELSE IF kind = "missing" THEN "resolved"
                    ELSE IF kind = "notdir" THEN "rejected"
                    ELSE "hung", walks[w].acc)
  /\ UNCHANGED <<cacheVars, disk, rootDir, boot, call, calls, gets>>

\* readBranch resolving for a file without storing its content
WalkReadFile_NoStore(w, p) ==
  /\ walks[w].pc[p] = "readFile"
  /\ WalkTo(w, p, "resolved", walks[w].acc)
  /\ UNCHANGED <<cacheVars, disk, rootDir, boot, call, calls, gets>>

\* fs.readFile(nodePath) settles
WalkReadFile(w, p) ==
  /\ walks[w].pc[p] = "readFile"
  /\ LET kind == KindAt(p) IN
       IF kind = "file"
         THEN WalkTo(w, p, "resolved", Graft(walks[w].acc, AccPath(w, p), Prim(disk[p])))
         ELSE WalkTo(w, p, IF kind = "missing" THEN "resolved" ELSE "rejected", walks[w].acc)
  /\ UNCHANGED <<cacheVars, disk, rootDir, boot, call, calls, gets>>

\* fs.readdir(nodePath) settles: the fan-out
WalkReaddir(w, p) ==
  /\ walks[w].pc[p] = "readdir"
  /\ LET kind == KindAt(p) IN
       IF kind = "dir"
         THEN walks' = [walks EXCEPT
                ![w].pc = [q \in {p \o <<n>> : n \in ChildNodes(p)} |-> "lstat"]
                            @@ (p :> "listed") @@ @,
                ![w].acc = Graft(@, AccPath(w, p), Placeholders(ChildNodes(p)))]
         ELSE WalkTo(w, p, IF kind = "missing" THEN "resolved" ELSE "rejected", walks[w].acc)
  /\ UNCHANGED <<cacheVars, disk, rootDir, boot, call, calls, gets>>

LstatStep == \E w \in DOMAIN walks : \E p \in DOMAIN walks[w].pc : WalkLstat(w, p)
ReadFileStep == \E w \in DOMAIN walks : \E p \in DOMAIN walks[w].pc : WalkReadFile(w, p)
ReaddirStep == \E w \in DOMAIN walks : \E p \in DOMAIN walks[w].pc : WalkReaddir(w, p)

\* ---- loadDatabase

\* fs.exists(this.config.root) settles
BootExists ==
  /\ boot = "exists"
  /\ boot' = IF Exists(<<>>) THEN "readdir" ELSE "mkdirRoot"
  /\ UNCHANGED <<cacheVars, disk, rootDir, walks, call, calls, gets>>

\* fs.readdir(this.config.root) settles; its result is dropped and the walk starts
BootReaddir ==
  /\ boot = "readdir"
  /\ IF KindAt(<<>>) = "dir"
       THEN boot' = "walk" /\ walks' = ("boot" :> NewWalk(<<>>)) @@ walks
       ELSE boot' = "failed" /\ walks' = walks
  /\ UNCHANGED <<cacheVars, disk, rootDir, call, calls, gets>>

\* fs.mkdir(rootPath) settles
BootMkdirRoot ==
  /\ boot = "mkdirRoot"
  /\ IF rootDir
       THEN boot' = "failed" /\ rootDir' = rootDir
       ELSE boot' = "mkdirStorage" /\ rootDir' = TRUE
  /\ UNCHANGED <<cacheVars, disk, walks, call, calls, gets>>

\* fs.mkdir(root) settles
BootMkdirStorage ==
  /\ boot = "mkdirStorage"
  /\ IF Exists(<<>>)
       THEN boot' = "failed" /\ disk' = disk
       ELSE boot' = "mkdirSchema" /\ disk' = EmptyObj
  /\ UNCHANGED <<cacheVars, rootDir, walks, call, calls, gets>>

\* fs.mkdir(rootPath/schema) settles, in the directory made two steps before,
\* and the walk starts
BootMkdirSchema ==
  /\ boot = "mkdirSchema"
  /\ boot' = "walk"
  /\ walks' = ("boot" :> NewWalk(<<>>)) @@ walks
  /\ UNCHANGED <<cacheVars, disk, rootDir, call, calls, gets>>

\* the walk has resolved: this.__cache.set('', tree.storage, false)
BootSeed ==
  /\ boot = "walk"
  /\ Promise("boot", <<>>) = "resolved"
  /\ LET r == CacheSet(cacheStorage, EmptyKey, Prop(walks["boot"].acc, Storage)) IN
       /\ cacheStorage' = r.storage
       /\ timers' = AfterSet(EmptyKey, "false", r.threw)
  /\ boot' = "done"
  /\ UNCHANGED <<cfgTtl, disk, rootDir, walks, call, calls, gets>>

\* the directory trees the model starts from
Tree1 == Graft(Graft(Wrap("a", Prim("x")), <<"b">>, EmptyObj), <<"b", "a">>, Prim("y"))
Tree2 == Graft(Graft(Wrap("a", EmptyObj), <<"a", "a">>, Prim("x")), <<"a", "b">>, Prim("y"))
Tree3 == Graft(Wrap("a", EmptyObj), <<"b">>, Wrap("b", Prim("x")))
DiskTrees == {EmptyObj, Tree1, Tree2, Tree3}

\* new TreeDB(options): the cache is empty and loadDatabase has asked whether
\* config.root exists
InitBoot ==
  /\ cacheStorage = EmptyObj
  /\ cfgTtl \in TtlConfigs
  /\ timers = <<>>
  /\ \/ disk \in DiskTrees /\ rootDir = TRUE
     \/ disk = Undefined /\ rootDir \in BOOLEAN
  /\ boot = "exists"
  /\ walks = NoWalks
  /\ call = Idle
  /\ calls = 0
  /\ gets = NoWalks

NextBoot ==
  \/ BootExists \/ BootReaddir \/ BootMkdirRoot \/ BootMkdirStorage \/ BootMkdirSchema
  \/ LstatStep \/ ReadFileStep \/ ReaddirStep
  \/ BootSeed \/ Expire

SpecBoot == InitBoot /\ [][NextBoot]_vars

\* ---- the walk on a disk that holds other nodes and that changes

\* a directory tree with a symbolic link in it
Tree4 == Graft(Graft(Wrap("a", Prim("x")), <<"b">>, EmptyObj), <<"b", "a">>, Prim(Link))
RaceTrees == DiskTrees \cup {Tree4}

\* another process removes the node at p, with everything below it
Unlink(p) ==
  /\ Exists(p) /\ p # <<>>
  /\ disk' = Delete(disk, p)
  /\ UNCHANGED <<cacheVars, rootDir, boot, walks, call, calls, gets>>

UnlinkAny == \E p \in DOMAIN disk : Unlink(p)

\* new TreeDB(options) on a directory that may hold a symbolic link
InitRace ==
  /\ cacheStorage = EmptyObj
  /\ cfgTtl \in TtlConfigs
  /\ timers = <<>>
  /\ \/ disk \in RaceTrees /\ rootDir = TRUE
     \/ disk = Undefined /\ rootDir \in BOOLEAN
  /\ boot = "exists"
  /\ walks = NoWalks
  /\ call = Idle
  /\ calls = 0
  /\ gets = NoWalks

NextRace == NextBoot \/ UnlinkAny

SpecRace == InitRace /\ [][NextRace]_vars

\* ---- getPath, readPath, readLeaf, writeLeaf

\* the keys the model calls TreeDB with: those of the cache, and each with a
\* leading slash
DbKeys == Keys \cup {<<"/">> \o key : key \in Keys}

\* this.__cache.set(nodePath, content) of getPath and writeLeaf, its promise dropped
Store(nodePath, content) ==
  LET r == CacheSet(cacheStorage, nodePath, content) IN
  /\ Len(AfterSet(nodePath, "undefined", r.threw)) <= MaxTimers
  /\ cacheStorage' = r.storage
  /\ timers' = AfterSet(nodePath, "undefined", r.threw)

\* getPath(nodePath): the cache is asked at once; a miss starts readPath
GetPathCall(nodePath) ==
  /\ boot = "done" /\ call = Idle /\ calls < MaxCalls
  /\ calls' = calls + 1
  /\ LET r == CacheGet(cacheStorage, Trim(nodePath)) IN
       call' = IF r.ok THEN Op("getPath", Trim(nodePath), "resolved", TRUE, r.value)
                       ELSE Op("getPath", Trim(nodePath), "lstat", FALSE, Undefined)
  /\ UNCHANGED <<cacheVars, disk, rootDir, boot, walks, gets>>

\* readPath taking every failure of the stat for "does not exist"
ReadPathLstat_AllMissing ==
  /\ call.op = "getPath" /\ call.pc = "lstat"
  /\ LET kind == KindAt(DiskPath(call.key)) IN
       IF kind \in {"missing", "notdir"}
         THEN /\ Store(call.key, Undefined)
              /\ call' = [call EXCEPT !.pc = "resolved"]
         ELSE /\ call' = [call EXCEPT !.pc = IF kind = "file" THEN "readFile"
                                              ELSE IF kind = "dir" THEN "readdir"
                                              ELSE "hung"]
              /\ UNCHANGED <<cacheStorage, timers>>
  /\ UNCHANGED <<cfgTtl, disk, rootDir, boot, walks, calls, gets>>

\* readPath: fs.lstat(nodePath) settles.  On ENOENT readPath resolves with
\* undefined, which getPath stores and returns; on another error it rejects,
\* and getPath with it; for a node that is neither a file nor a directory the
\* callback returns without settling the promise.
ReadPathLstat ==
  /\ call.op = "getPath" /\ call.pc = "lstat"
  /\ LET kind == KindAt(DiskPath(call.key)) IN
       IF kind = "missing"
         THEN /\ Store(call.key, Undefined)
              /\ call' = [call EXCEPT !.pc = "resolved"]
         ELSE /\ call' = [call EXCEPT !.pc = IF kind = "file" THEN "readFile"
                                              ELSE IF kind = "dir" THEN "readdir"
                                              ELSE IF kind = "notdir" THEN "rejected"
                                              ELSE "hung"]
              /\ UNCHANGED <<cacheStorage, timers>>
  /\ UNCHANGED <<cfgTtl, disk, rootDir, boot, walks, calls, gets>>

\* readLeaf: fs.readFile(nodePath) settles
ReadPathReadFile ==
  /\ call.op = "getPath" /\ call.pc = "readFile"
  /\ LET p == DiskPath(call.key) IN
       IF KindAt(p) = "file"
         THEN /\ Store(call.key, Wrap(BaseName(p), Prim(disk[p])))
              /\ call' = [call EXCEPT !.pc = "resolved",
                                      !.value = Wrap(BaseName(p), Prim(disk[p]))]
         ELSE /\ call' = [call EXCEPT !.pc = "rejected"]
              /\ UNCHANGED <<cacheStorage, timers>>
  /\ UNCHANGED <<cfgTtl, disk, rootDir, boot, walks, calls, gets>>

\* readPath: fs.readdir(nodePath) settles
ReadPathReaddir ==
  /\ call.op = "getPath" /\ call.pc = "readdir"
  /\ LET p == DiskPath(call.key) IN
       IF KindAt(p) = "dir"
         THEN \E order \in Orders(ChildNodes(p)) :
                /\ Store(call.key, ArrayOf(order))
                /\ call' = [call EXCEPT !.pc = "resolved", !.value = ArrayOf(order)]
         ELSE IF KindAt(p) = "missing"
           THEN /\ Store(call.key, Undefined)
                /\ call' = [call EXCEPT !.pc = "resolved"]
           ELSE /\ call' = [call EXCEPT !.pc = "rejected"]
                /\ UNCHANGED <<cacheStorage, timers>>
  /\ UNCHANGED <<cfgTtl, disk, rootDir, boot, walks, calls, gets>>

\* writeLeaf(nodePath, content): fs.writeFile is under way
WriteLeafCall(nodePath, content) ==
  /\ boot = "done" /\ call = Idle /\ calls < MaxCalls
  /\ calls' = calls + 1
  /\ call' = Op("writeLeaf", nodePath, "writeFile", FALSE, Prim(content))
  /\ UNCHANGED <<cacheVars, disk, rootDir, boot, walks, gets>>

\* writeLeaf writing the cache whatever became of the disk write
WriteLeafSettle_Eager(ok) ==
  /\ call.op = "writeLeaf" /\ call.pc = "writeFile"
  /\ ok => Split(call.key)[Len(Split(call.key))] # ""
  /\ Store(call.key, call.value)
  /\ call' = [call EXCEPT !.pc = "resolved", !.flag = ok]
  /\ UNCHANGED <<cfgTtl, disk, rootDir, boot, walks, calls, gets>>

\* fs.writeFile(nodePath, content) settles.  The file is written at nodePath as
\* the process's working directory resolves it, not below config.root: the
\* tree `disk` stays as it is.  The write fails when nodePath names no file:
\* when it is empty or ends with a separator.
WriteLeafSettle(ok) ==
  /\ call.op = "writeLeaf" /\ call.pc = "writeFile"
  /\ ok => Split(call.key)[Len(Split(call.key))] # ""
  /\ IF ok
       THEN Store(call.key, call.value)
       ELSE UNCHANGED <<cacheStorage, timers>>
  /\ call' = [call EXCEPT !.pc = "resolved", !.flag = ok]
  /\ UNCHANGED <<cfgTtl, disk, rootDir, boot, walks, calls, gets>>

\* the client takes the outcome of its call
Return ==
  /\ call.pc \in {"resolved", "rejected"}
  /\ call' = Idle
  /\ UNCHANGED <<cacheVars, disk, rootDir, boot, walks, calls, gets>>

GetPathAny == \E nodePath \in DbKeys : GetPathCall(nodePath)
WriteLeafAny == \E nodePath \in DbKeys, content \in Contents : WriteLeafCall(nodePath, content)
WriteLeafDone == \E ok \in BOOLEAN : WriteLeafSettle(ok)

\* a TreeDB whose loadDatabase has finished on an unchanged disk: the cache
\* mirrors the disk and the timer of the seeding set, if any, is pending
InitDB ==
  /\ disk \in DiskTrees
  /\ rootDir = TRUE
  /\ cfgTtl \in TtlConfigs
  /\ cacheStorage = disk
  /\ timers = IF SchedulesTimer(EffectiveTtl("false", cfgTtl)) THEN <<EmptyKey>> ELSE <<>>
  /\ boot = "done"
  /\ walks = NoWalks
  /\ call = Idle
  /\ calls = 0
  /\ gets = NoWalks

NextDB ==
  \/ GetPathAny \/ ReadPathLstat \/ ReadPathReadFile \/ ReadPathReaddir
  \/ WriteLeafAny \/ WriteLeafDone \/ Return \/ Expire

SpecDB == InitDB /\ [][NextDB]_vars

\* ---- getBranch

\* the clients that call getBranch, each once; "A" is the first to call
Callers == {"A", "B"}

\* the paths getBranch is called with
BranchKeys ==
  {EmptyKey, <<"a">>, <<"b">>, <<"/", "b">>, <<"a", Sep, "b">>, <<"b", Sep, "a">>}

\* a getBranch call: the trimmed nodePath, whether the cache had it, where the
\* call stands and what it resolved with
Branch(key, hit, pc, value) == [key |-> key, hit |-> hit, pc |-> pc, value |-> value]

\* loadDatabase has come to rest: it has seeded the cache, or its walk waits
\* for a promise that nothing will settle
AtRest ==
  \/ boot = "done"
  \/ /\ boot = "walk"
     /\ Promise("boot", <<>>) = "pending"
     /\ \A p \in DOMAIN walks["boot"].pc :
          walks["boot"].pc[p] \notin {"lstat", "readFile", "readdir"}

\* getBranch(nodePath): the cache is asked at once; a miss starts a walk of its
\* own, with a tree of its own, from path.join(config.root, nodePath)
GetBranchCall(c, nodePath) ==
  /\ AtRest
  /\ c \notin DOMAIN gets
  /\ c = "B" => "A" \in DOMAIN gets
  /\ LET r == CacheGet(cacheStorage, Trim(nodePath)) IN
       IF r.ok
         THEN /\ gets' = (c :> Branch(Trim(nodePath), TRUE, "resolved", r.value)) @@ gets
              /\ walks' = walks
         ELSE /\ gets' = (c :> Branch(Trim(nodePath), FALSE, "walk", Undefined)) @@ gets
              /\ walks' = (c :> NewWalk(DiskPath(Trim(nodePath)))) @@ walks
  /\ UNCHANGED <<cacheVars, disk, rootDir, boot, call, calls>>

\* the promise of readBranch(basePath, tree) has settled: when it resolved,
\* this.__cache.set(nodePath, tree), its promise dropped, and the call resolves
\* with tree; when it rejected, the call rejects
GetBranchSettle(c) ==
  /\ c \in DOMAIN gets /\ gets[c].pc = "walk"
  /\ Promise(c, walks[c].base) # "pending"
  /\ IF Promise(c, walks[c].base) = "resolved"
       THEN /\ Store(gets[c].key, walks[c].acc)
            /\ gets' = [gets EXCEPT ![c].pc = "resolved", ![c].value = walks[c].acc]
       ELSE /\ gets' = [gets EXCEPT ![c].pc = "rejected"]
            /\ UNCHANGED <<cacheStorage, timers>>
  /\ UNCHANGED <<cfgTtl, disk, rootDir, boot, walks, call, calls>>

GetBranchAny == \E c \in Callers, nodePath \in BranchKeys : GetBranchCall(c, nodePath)
GetBranchDone == \E c \in Callers : GetBranchSettle(c)

\* cache.remove(key) by the client of a TreeDB, through its cache
RemoveEntry == \E key \in ProperKeys : AtRest /\ Remove(key)

\* new TreeDB(options) on an existing storage directory that does not change
InitBranch ==
  /\ cacheStorage = EmptyObj
  /\ cfgTtl \in TtlConfigs
  /\ timers = <<>>
  /\ disk \in RaceTrees
  /\ rootDir = TRUE
  /\ boot = "exists"
  /\ walks = NoWalks
  /\ call = Idle
  /\ calls = 0
  /\ gets = NoWalks

NextBranch ==
  \/ BootExists \/ BootReaddir \/ LstatStep \/ ReadFileStep \/ ReaddirStep \/ BootSeed
  \/ GetBranchAny \/ GetBranchDone \/ RemoveEntry \/ Expire

SpecBranch == InitBranch /\ [][NextBranch]_vars

\* ------------------------------------------------------------------ claims

\* whether the tree v holds a node, of any kind, at the key
Present(v, key) == Split(key) \in DOMAIN v

\* C1: in every reachable cache state, for every non-empty key P and every
\* value V, set(P, V) completes successfully and a get(P) made right after it
\* resolves with exactly V.
C1_SetThenGet ==
  \A key \in ProperKeys, value \in Values :
    LET r == CacheSet(cacheStorage, key, value) IN
    ~r.threw /\ CacheGet(r.storage, key) = Resolved(value)

\* the TTL the documentation gives a set call: the argument, or the configured
\* default when the argument is omitted
DocumentedTtl(ttl) == IF ttl = "undefined" THEN cfgTtl ELSE ttl

\* C2: after a set(P, V, T) whose effective TTL is truthy, an expiry timer
\* for P is pending.
C2_TimerPending ==
  \A key \in ProperKeys, value \in Values, ttl \in TtlArgs :
    LET r == CacheSet(cacheStorage, key, value) IN
    (~r.threw /\ ~Falsy(Prim(DocumentedTtl(ttl))))
      => AfterSet(key, ttl, r.threw) = Append(timers, key)

\* C3: set(P, V, ttl) with an explicit ttl of false or 0 schedules no expiry
\* timer, whatever the configured default TTL is.
C3_PinnedNoTimer ==
  \A key \in ProperKeys, value \in Values, ttl \in {"false", "0"} :
    AfterSet(key, ttl, CacheSet(cacheStorage, key, value).threw) = timers

\* C4: once loadDatabase has seeded the cache root with the storage subtree of
\* its walk, no TTL timer is registered for it, for every configured cache.ttl.
C4_SeedPinned ==
  boot = "done" => cacheStorage = disk /\ timers = <<>>

\* what loadDatabase leaves on an unchanged disk, the states InitDB starts from
BootSeedsMirror ==
  boot = "done" => cacheStorage = disk /\ timers \in {<<>>, <<EmptyKey>>}

\* C5: after writeLeaf(P, content) has resolved following a successful disk
\* write, getPath(P) is answered from the cache with exactly content.
C5_WriteThrough ==
  (call.op = "writeLeaf" /\ call.pc = "resolved" /\ call.flag)
    => CacheGet(cacheStorage, Trim(call.key)) = Resolved(call.value)

\* C6: when getPath(P) misses the cache and the disk read yields X, X is in
\* the cache under P when getPath resolves, so that a getPath(P) made next is
\* a cache hit that resolves with X.
C6_MissFillsCache ==
  [][(call.pc # "resolved" /\ call'.op = "getPath" /\ call'.pc = "resolved"
        /\ ~call'.flag /\ call'.value # Undefined)
       => CacheGet(cacheStorage', call'.key) = Resolved(call'.value)]_vars

\* C7: on a tree of regular files and directories that does not change,
\* readBranch(rootDir, acc) started with an empty accumulator neither rejects
\* nor hangs, and when it has resolved acc holds exactly one key, the base name
\* of rootDir, whose value is the nested mirror of the tree.
C7_Mirror ==
  \A w \in DOMAIN walks :
    /\ \A p \in DOMAIN walks[w].pc : walks[w].pc[p] \notin {"rejected", "hung"}
    /\ (\A p \in DOMAIN walks[w].pc : walks[w].pc[p] \in {"resolved", "listed"})
         => Promise(w, walks[w].base) = "resolved"
    /\ Promise(w, walks[w].base) = "resolved"
         => walks[w].acc = Wrap(BaseName(walks[w].base), Sub(disk, walks[w].base))

\* a walk has resolved on the tree {a: "x", b: {a: "y"}}
C7_Witness ==
  /\ "boot" \in DOMAIN walks
  /\ Promise("boot", <<>>) = "resolved"
  /\ disk = Tree1

\* C8: set('', V) replaces the whole cache tree: the root is V, and every key
\* that was retrievable in the old tree and is not present in V fails with
\* NotFound afterwards.
C8_RootReplaced ==
  \A value \in Values :
    LET r == CacheSet(cacheStorage, EmptyKey, value) IN
    /\ ~r.threw
    /\ r.storage = value
    /\ \A key \in ProperKeys :
         (CacheGet(cacheStorage, key).ok /\ ~Present(value, key))
           => ~CacheGet(r.storage, key).ok

\* the root is the Branch {a: "y"}, which only a set('', V) stores there, and
\* the timer of that set is pending
C8_Witness ==
  /\ cacheStorage = Wrap("a", Prim("y"))
  /\ timers = <<EmptyKey>>

\* the keys that are neither a prefix nor an extension of the key
Unrelated(key) ==
  {q \in ProperKeys : ~IsPrefix(Split(q), Split(key)) /\ ~IsPrefix(Split(key), Split(q))}

\* the keys that are proper prefixes of the key
Intermediates(key) ==
  {q \in ProperKeys : q # key /\ IsPrefix(Split(q), Split(key))}

\* C9: set(P, V) with a non-empty P creates every missing intermediate Branch
\* of P and leaves every key that is neither a prefix nor an extension of P
\* resolving as before.
C9_SetFrame ==
  \A key \in ProperKeys, value \in Values :
    LET r == CacheSet(cacheStorage, key, value) IN
    /\ \A q \in Intermediates(key) :
         ~CacheGet(cacheStorage, q).ok
           => CacheGet(r.storage, q).ok /\ IsObj(CacheGet(r.storage, q).value)
    /\ \A q \in Unrelated(key) : CacheGet(r.storage, q) = CacheGet(cacheStorage, q)

\* C10: remove(P) deletes only the terminal entry of P; when an intermediate
\* segment of P is absent, it leaves the cache unchanged and raises no error.
C10_RemoveFrame ==
  \A key \in ProperKeys :
    LET r == CacheRemove(cacheStorage, key) IN
    /\ \A q \in Unrelated(key) : CacheGet(r.storage, q) = CacheGet(cacheStorage, q)
    /\ (\E q \in Intermediates(key) : ~CacheGet(cacheStorage, q).ok)
         => r.storage = cacheStorage /\ r.outcome # "rejected"

\* C14: every remove(P) call completes: the promise it returns is resolved both
\* when an intermediate segment is missing and when the terminal entry is
\* deleted, so that an operation sequenced after it gets to run.
C14_RemoveSettles ==
  \A key \in Keys :
    LET r == CacheRemove(cacheStorage, key) IN
    r.outcome # "rejected" => r.outcome = "resolved"

\* C15: set and remove are total over the tree: in every reachable cache state
\* and for every key, also one with a Leaf at an intermediate segment and with
\* a root that is no Branch, set(key, V) and remove(key) neither throw nor
\* reject.
C15_Total ==
  \A key \in Keys :
    /\ \A value \in Values : ~CacheSet(cacheStorage, key, value).threw
    /\ CacheRemove(cacheStorage, key).outcome # "rejected"

\* C16: a set call registers exactly one timer when its effective TTL is
\* nonzero and none otherwise; the timers registered before stay, and the new
\* one is for the key of the call; a timer that fires calls remove for the key
\* it was registered with.
C16_OneTimerPerSet ==
  \A key \in Keys, value \in Values, ttl \in TtlArgs :
    LET r == CacheSet(cacheStorage, key, value)
        after == AfterSet(key, ttl, r.threw) IN
    ~r.threw =>
      /\ SubSeq(after, 1, Len(timers)) = timers
      /\ after = IF Falsy(Prim(EffectiveTtl(ttl, cfgTtl)))
                   THEN timers ELSE Append(timers, key)

\* C12: when the disk write of writeLeaf(P, content) fails, the promise of
\* writeLeaf resolves all the same, it never rejects, and the call leaves the
\* cache and its timers as they were: from the call to its end writeLeaf
\* touches the cache only in the step that follows a successful write.
C12_FailedWrite ==
  [][(call'.op = "writeLeaf" /\ call' # call /\ ~call'.flag)
       => /\ call'.pc \in {"writeFile", "resolved"}
          /\ call.pc = "writeFile" => call'.pc = "resolved"
          /\ cacheStorage' = cacheStorage
          /\ timers' = timers]_vars

\* a writeLeaf whose disk write failed has resolved
C12_Witness ==
  call.op = "writeLeaf" /\ call.pc = "resolved" /\ ~call.flag

\* C13: readPath(P), and getPath(P) with it, resolves with undefined when the
\* stat of the resolved path fails with ENOENT, and rejects when the stat
\* fails with another error.
C13_StatFailure ==
  [][(call.op = "getPath" /\ call.pc = "lstat" /\ call' # call)
       => /\ KindAt(DiskPath(call.key)) = "missing"
               => call'.pc = "resolved" /\ call'.value = Undefined
          /\ KindAt(DiskPath(call.key)) = "notdir"
               => call'.pc = "rejected"]_vars

\* a getPath has been rejected for a path below a regular file, whose stat
\* fails with ENOTDIR
C13_Witness ==
  /\ call.op = "getPath" /\ call.pc = "rejected"
  /\ KindAt(DiskPath(call.key)) = "notdir"

\* C17: a readBranch call on a directory starts the recursions of all the
\* children at once and is resolved only when every recursion below it is; when
\* the top-level call is resolved the accumulator is complete: no entry of it
\* still holds the placeholder null.
C17_FanIn ==
  /\ \A w \in DOMAIN walks :
       Promise(w, walks[w].base) = "resolved"
         => /\ \A p \in DOMAIN walks[w].pc : Promise(w, p) = "resolved"
            /\ \A q \in DOMAIN walks[w].acc : walks[w].acc[q] # "null"
  /\ \A w \in DOMAIN walks : \A p \in DOMAIN walks[w].pc :
       walks[w].pc[p] # "listed" => WalkChildren(w, p) = {}

\* C18: a node that is missing when readBranch stats it contributes nothing:
\* its recursion resolves and the accumulator has no key for it, neither with
\* the value null nor with another.
C18_MissingContributesNothing ==
  [][\A w \in DOMAIN walks : \A p \in DOMAIN walks[w].pc :
       (walks[w].pc[p] = "lstat" /\ walks'[w].pc[p] # "lstat" /\ KindAt(p) = "missing")
         => /\ walks'[w].pc[p] = "resolved"
            /\ AccPath(w, p) \notin DOMAIN walks'[w].acc]_vars

\* C20: every readBranch and readPath call settles, whatever kind of node the
\* stat reports: no call is left with a promise that nothing will settle.
C20_Settles ==
  /\ \A w \in DOMAIN walks : \A p \in DOMAIN walks[w].pc : walks[w].pc[p] # "hung"
  /\ call.pc # "hung"

\* what the cache tree holds at the place set(key, _) writes to
Entry(root, key) ==
  IF Len(key) = 0 THEN root
  ELSE IF Split(key) \in DOMAIN root THEN Sub(root, Split(key))
  ELSE Undefined

\* C11: getBranch calls that miss the cache, two of them on the same path
\* included, each make a walk of their own; each of them resolves (unless the
\* path lies below a regular file, whose stat fails); and when a call completes,
\* the cache holds under its path the tree of that call, the last to write.
C11_LastWriterWins ==
  [][/\ \A c \in DOMAIN gets' : ~gets'[c].hit => c \in DOMAIN walks'
     /\ \A c \in DOMAIN gets' :
          (c \in DOMAIN walks' /\ KindAt(walks'[c].base) # "notdir")
            => \A p \in DOMAIN walks'[c].pc : walks'[c].pc[p] \notin {"hung", "rejected"}
     /\ \A c \in DOMAIN gets :
          (gets[c].pc = "walk" /\ gets'[c].pc = "resolved")
            => /\ gets'[c].value = walks[c].acc
               /\ Entry(cacheStorage', gets[c].key) = walks[c].acc]_vars

\* C19: on the disk as bootstrap found it, a getBranch(P) for a directory P
\* resolves with the tree bootstrap seeded at P, both when the seeded cache
\* answers it (hit) and when it is rebuilt after the entry for P, and nothing
\* else, was removed (miss); and the value the miss stores under P is that
\* tree too.
C19_RebuildSameShape ==
  [][\A c \in DOMAIN gets' :
       LET key == gets'[c].key
           seeded == Sub(disk, DiskPath(key)) IN
       (/\ boot = "done"
        /\ gets'[c].pc = "resolved"
        /\ c \in DOMAIN gets => gets[c].pc = "walk"
        /\ key # EmptyKey
        /\ KindAt(DiskPath(key)) = "dir"
        /\ cacheStorage = IF gets'[c].hit THEN disk ELSE Delete(disk, Split(key)))
         => /\ gets'[c].value = seeded
            /\ Entry(cacheStorage', key) = seeded]_vars

=============================================================================
